---- MODULE Spec2Model ----
(***************************************************************************)
(* A model of the lights-sengled client library (src/src/lib.rs): the Mac  *)
(* identifier codec, the login response discrimination, the device         *)
(* directory parsing, the command encoding and the SengledApi session.     *)
(*                                                                         *)
(* Strings the code processes character by character (identifiers, topic, *)
(* command values, cookies) are sequences of one-character strings.        *)
(***************************************************************************)
EXTENDS Integers, Sequences, FiniteSets, Bags, TLC

VARIABLES
    pc,          \* position of new and the client: start, login_wait, connect_wait, ready, failed, panicked
    session_id,  \* SengledApi.session_id (NoToken before construction)
    client,      \* the mqtt client: client_id, connect cookie, connected
    result,      \* the result of the last call that ended
    devices,     \* the Vec<Device> of the last successful get_devices
    held,        \* every Device a get_devices has returned: the caller may keep them
    pending,     \* the calls suspended at their await: a bag of calls
    lastReq,     \* the last HTTP request sent
    lastMsg,     \* the last message handed to client.publish
    nLogin,      \* number of login requests sent
    nConnect,    \* number of mqtt connects started
    nPublish,    \* number of messages handed to client.publish
    nCalls,      \* number of command calls that returned
    lastCall,    \* the last command call that returned: operation, device, arguments, message
    loginBody,   \* the body of the login response received
    stage,       \* position of a codec run: input, formatted, parsed, done
    arg,         \* the input of a codec run
    ret          \* the output of a codec run

sessionVars == <<pc, session_id, client, result, devices, held, pending, lastReq,
                 lastMsg, nLogin, nConnect, nPublish, nCalls, lastCall, loginBody>>
probeVars == <<stage, arg, ret>>
vars == <<pc, session_id, client, result, devices, held, pending, lastReq, lastMsg,
          nLogin, nConnect, nPublish, nCalls, lastCall, loginBody, stage, arg, ret>>

----------------------------------------------------------------------------
(* Characters and strings *)

HexUpper == <<"0","1","2","3","4","5","6","7","8","9","A","B","C","D","E","F">>
HexLower == <<"0","1","2","3","4","5","6","7","8","9","a","b","c","d","e","f">>
DecDigits == <<"0","1","2","3","4","5","6","7","8","9">>

\* the length of [u8; 6]
MacLen == 6
\* u8::MAX
U8Max == 255

RECURSIVE UpperHex(_)
\* format!("{:X}", byte): uppercase hexadecimal, no padding
UpperHex(n) ==
    IF n < Len(HexUpper)
    THEN <<HexUpper[n + 1]>>
    ELSE UpperHex(n \div Len(HexUpper)) \o <<HexUpper[(n % Len(HexUpper)) + 1]>>

RECURSIVE Decimal(_)
\* format!("{}", n) of an unsigned integer
Decimal(n) ==
    IF n < Len(DecDigits)
    THEN <<DecDigits[n + 1]>>
    ELSE Decimal(n \div Len(DecDigits)) \o <<DecDigits[(n % Len(DecDigits)) + 1]>>

RECURSIVE Join(_, _)
\* [String]::join(sep)
Join(parts, sep) ==
    IF Len(parts) = 0 THEN <<>>
    ELSE IF Len(parts) = 1 THEN parts[1]
    ELSE parts[1] \o sep \o Join(Tail(parts), sep)

RECURSIVE Split(_, _)
\* str::split(c): the segments between the separators, empty ones kept;
\* the empty string gives one empty segment
Split(s, c) ==
    IF \A i \in 1..Len(s) : s[i] # c
    THEN <<s>>
    ELSE LET k == CHOOSE i \in 1..Len(s) : s[i] = c /\ \A j \in 1..(i - 1) : s[j] # c
         IN  <<SubSeq(s, 1, k - 1)>> \o Split(SubSeq(s, k + 1, Len(s)), c)

----------------------------------------------------------------------------
(* Identifier codec *)

\* impl Display for Mac
MacFmt(mac) == Join([i \in 1..Len(mac) |-> UpperHex(mac[i])], <<":">>)

\* char::to_digit(radix): -1 when c is no digit of the radix
ToDigit(c, radix) ==
    LET up == {i \in 1..Len(HexUpper) : HexUpper[i] = c}
        lo == {i \in 1..Len(HexLower) : HexLower[i] = c}
        d  == IF up # {} THEN (CHOOSE i \in up : TRUE) - 1
              ELSE IF lo # {} THEN (CHOOSE i \in lo : TRUE) - 1
              ELSE -1
    IN  IF d >= 0 /\ d < radix THEN d ELSE -1

RECURSIVE AccumulateDigits(_, _, _)
\* the digit loop of from_str_radix with its overflow checks: -1 on error
AccumulateDigits(digits, radix, acc) ==
    IF Len(digits) = 0 THEN acc
    ELSE LET d == ToDigit(digits[1], radix)
         IN  IF d < 0 \/ acc * radix + d > U8Max
             THEN -1
             ELSE AccumulateDigits(Tail(digits), radix, acc * radix + d)

\* a parser that reads every item in base ten, whatever the radix asked for
FromStrRadixDecimal(src, radix) ==
    LET digits == IF Len(src) > 0 /\ src[1] = "+" THEN Tail(src) ELSE src
        v == AccumulateDigits(digits, Len(DecDigits), 0)
    IN  IF Len(src) = 0 \/ Len(digits) = 0 \/ v < 0
        THEN [ok |-> FALSE, val |-> 0]
        ELSE [ok |-> TRUE, val |-> v]

\* u8::from_str_radix(src, radix): [ok, val]. An empty string, a lone sign and
\* a '-' are errors; one leading '+' is accepted; any number of digits is
\* accepted as long as the value fits a u8
FromStrRadix(src, radix) ==
    LET digits == IF Len(src) > 0 /\ src[1] = "+" THEN Tail(src) ELSE src
        v == AccumulateDigits(digits, radix, 0)
    IN  IF Len(src) = 0 \/ Len(digits) = 0 \/ v < 0
        THEN [ok |-> FALSE, val |-> 0]
        ELSE [ok |-> TRUE, val |-> v]

\* the identifier parser of Device::deserialize: split(':'), from_str_radix(item, 16)
\* on every item, collect, then try_into [u8; 6]
ParseMac(s) ==
    LET items == Split(s, ":")
        parsed == [i \in 1..Len(items) |-> FromStrRadix(items[i], Len(HexUpper))]
    IN  IF \E i \in 1..Len(items) : ~parsed[i].ok
        THEN [ok |-> FALSE, mac |-> <<>>]
        ELSE IF Len(items) # MacLen
        THEN [ok |-> FALSE, mac |-> <<>>]
        ELSE [ok |-> TRUE, mac |-> [i \in 1..Len(items) |-> parsed[i].val]]

----------------------------------------------------------------------------
(* The state before SengledApi::new *)

NoToken == <<>>
NoClient == [client_id |-> <<>>, cookie |-> <<>>, connected |-> FALSE]
NoResult == [tag |-> "none", err |-> "", at |-> ""]
NoReq == [uri |-> "", cookie |-> <<>>, body |-> "none"]
NoMsg == [topic |-> <<>>, ty |-> "", dn |-> <<>>, value |-> <<>>, time |-> 0]
NoCall == [op |-> "none", uuid |-> <<>>, brightness |-> 0, color |-> <<>>, msg |-> NoMsg]

SessionInit ==
    /\ pc = "start"
    /\ session_id = NoToken
    /\ client = NoClient
    /\ result = NoResult
    /\ devices = <<>>
    /\ held = {}
    /\ pending = EmptyBag
    /\ lastReq = NoReq
    /\ lastMsg = NoMsg
    /\ nLogin = 0
    /\ nConnect = 0
    /\ nPublish = 0
    /\ nCalls = 0
    /\ lastCall = NoCall
    /\ loginBody = [kind |-> "none", fields |-> <<>>]

ProbeIdle ==
    /\ stage = "idle"
    /\ arg = <<>>
    /\ ret = <<>>

----------------------------------------------------------------------------
(* Identifier formatting and parsing, run on their own *)

\* byte values around the one-digit / two-digit boundary and the extremes
ByteSamples == {0, 10, 15, 16, 255}
Bytes == 0..U8Max
MacBase == <<170, 187, 204, 221, 238, 255>>
MacZero == [i \in 1..MacLen |-> 0]

\* every combination of the samples, and every byte value at every position
MacInputs ==
    [1..MacLen -> ByteSamples]
    \cup {[MacBase EXCEPT ![i] = b] : i \in 1..MacLen, b \in Bytes}
    \cup {[MacZero EXCEPT ![i] = b] : i \in 1..MacLen, b \in Bytes}

InitFormat ==
    /\ SessionInit
    /\ stage = "input"
    /\ arg \in MacInputs
    /\ ret = <<>>

\* format!("{}", mac)
FormatMac ==
    /\ stage = "input"
    /\ stage' = "formatted"
    /\ ret' = [str |-> MacFmt(arg), parsed |-> [ok |-> FALSE, mac |-> <<>>]]
    /\ UNCHANGED <<arg, sessionVars>>

\* the identifier parser applied to the formatted string
ParseFormatted ==
    /\ stage = "formatted"
    /\ stage' = "parsed"
    /\ ret' = [ret EXCEPT !.parsed = ParseMac(ret.str)]
    /\ UNCHANGED <<arg, sessionVars>>

NextFormat == FormatMac \/ ParseFormatted

SpecFormat == InitFormat /\ [][NextFormat]_vars

IsUpperHexDigit(c) == \E i \in 1..Len(HexUpper) : HexUpper[i] = c

\* AA:BB:CC:DD:EE:FF: six groups of two uppercase hexadecimal digits, colons between
IsCanonicalMacString(s) ==
    /\ Len(s) = 3 * MacLen - 1
    /\ \A i \in 1..Len(s) :
          IF i % 3 = 0 THEN s[i] = ":" ELSE IsUpperHexDigit(s[i])

\* C3: parsing the formatted string of any 6 bytes succeeds and gives back the bytes
C3_RoundTrip ==
    stage = "parsed" => (ret.parsed.ok /\ ret.parsed.mac = arg)

C3_Witness ==
    /\ stage = "parsed"
    /\ \E i \in 1..MacLen : arg[i] < Len(HexUpper)
    /\ \E i \in 1..MacLen : arg[i] >= Len(HexUpper)
    /\ ret.parsed.ok

\* C4: the formatted identifier is always six two-digit uppercase hexadecimal
\* octets joined by ':' (17 characters)
C4_Canonical ==
    stage \in {"formatted", "parsed"} => IsCanonicalMacString(ret.str)

----------------------------------------------------------------------------
(* The identifier parser run on strings of every shape *)

\* the longest list of segments tried
MaxSegments == 7

\* segments of every kind: empty, one digit, two digits in either case, not
\* hexadecimal, signed, three digits in and out of range
AllSegs ==
    { <<>>, <<"0">>, <<"A">>, <<"f">>, <<"0","A">>, <<"F","F">>, <<"a","b">>,
      <<"G","G">>, <<"1","G">>, <<"+","A">>, <<"-","1">>, <<"+">>, <<"-">>,
      <<"1","0","0">>, <<"0","0","A">>, <<"0","F","F">>, <<"+","F","F">> }
SmallSegs == { <<"0","A">>, <<"f">>, <<>> }
CanonicalSegs == [i \in 1..MacLen |-> <<"A", HexUpper[i]>>]

\* every list of 1..MaxSegments small segments, and every kind of segment at
\* every position of a canonical identifier, joined by ':'
UuidInputs ==
    {Join(segs, <<":">>) :
        segs \in UNION {[1..n -> SmallSegs] : n \in 1..MaxSegments}}
    \cup {Join([CanonicalSegs EXCEPT ![i] = g], <<":">>) :
            i \in 1..MacLen, g \in AllSegs}

InitParse ==
    /\ SessionInit
    /\ stage = "input"
    /\ arg \in UuidInputs
    /\ ret = <<>>

\* the identifier parser of Device::deserialize applied to a deviceUuid
ParseUuid ==
    /\ stage = "input"
    /\ stage' = "parsed"
    /\ ret' = ParseMac(arg)
    /\ UNCHANGED <<arg, sessionVars>>

NextParse == ParseUuid

SpecParse == InitParse /\ [][NextParse]_vars

IsHexDigit(c) ==
    \/ \E i \in 1..Len(HexUpper) : HexUpper[i] = c
    \/ \E i \in 1..Len(HexLower) : HexLower[i] = c

RECURSIVE HexValue(_, _)
\* the number a string of hexadecimal digits writes
HexValue(s, acc) ==
    IF Len(s) = 0 THEN acc
    ELSE HexValue(Tail(s), acc * 16 + ToDigit(s[1], 16))

IsTwoDigitHex(seg) == Len(seg) = 2 /\ IsHexDigit(seg[1]) /\ IsHexDigit(seg[2])

\* C5: the parser accepts a string only if it splits on ':' into exactly six
\* segments that are each a 2-digit hexadecimal byte, and a parsed identifier
\* has exactly 6 bytes
C5_AcceptsOnlySixTwoDigitOctets ==
    (stage = "parsed" /\ ret.ok) =>
        LET items == Split(arg, ":")
        IN  /\ Len(items) = MacLen
            /\ \A i \in 1..Len(items) : IsTwoDigitHex(items[i])
            /\ Len(ret.mac) = MacLen

\* what the parser does accept as a segment: an optional '+', then one or
\* more hexadecimal digits writing a value of at most 255
AcceptedSegment(seg) ==
    LET digits == IF Len(seg) > 0 /\ seg[1] = "+" THEN Tail(seg) ELSE seg
    IN  /\ Len(digits) >= 1
        /\ \A i \in 1..Len(digits) : IsHexDigit(digits[i])
        /\ HexValue(digits, 0) <= U8Max

\* the parts of C5 that hold: a string is accepted exactly when it splits into
\* six accepted segments, so a segment count other than six, an empty segment,
\* the empty string and a digit that is not hexadecimal are errors, and a
\* parsed identifier has exactly 6 bytes
C5_AcceptedShapes ==
    stage = "parsed" =>
        LET items == Split(arg, ":")
        IN  /\ ret.ok <=> (/\ Len(items) = MacLen
                           /\ \A i \in 1..Len(items) : AcceptedSegment(items[i]))
            /\ ret.ok => Len(ret.mac) = MacLen

----------------------------------------------------------------------------
(* f32 arithmetic, as far as set_brightness uses it.  An f32 is [m, e], the *)
(* value m * 2^e, with m = 0 or 2^23 <= m < 2^24.                          *)

\* the bits of an f32 significand
F32Bits == 24

F32Lo == 2 ^ (F32Bits - 1)
F32Hi == 2 ^ F32Bits

RECURSIVE F32Normalize(_, _)
\* an exact value m * 2^e with 0 < m < 2^24 brought to 2^23 <= m
F32Normalize(m, e) ==
    IF m >= F32Lo THEN [m |-> m, e |-> e] ELSE F32Normalize(2 * m, e - 1)

\* `brightness as f32`: exact for every u8
F32FromInt(n) == IF n = 0 THEN [m |-> 0, e |-> 0] ELSE F32Normalize(n, 0)

\* round to nearest, ties to even: q the truncated significand, twice the
\* remainder compared with the unit
F32Round(q, e, rem2, unit) ==
    LET up == rem2 > unit \/ (rem2 = unit /\ q % 2 = 1)
        m  == IF up THEN q + 1 ELSE q
    IN  IF m = F32Hi THEN [m |-> F32Lo, e |-> e + 1] ELSE [m |-> m, e |-> e]

RECURSIVE LongDiv(_, _, _, _)
\* n more quotient bits of r / d, r < d
LongDiv(r, d, n, q) ==
    IF n = 0 THEN [q |-> q, r |-> r]
    ELSE IF 2 * r >= d
    THEN LongDiv(2 * r - d, d, n - 1, 2 * q + 1)
    ELSE LongDiv(2 * r, d, n - 1, 2 * q)

\* x / y in f32, y # 0
F32Div(x, y) ==
    IF x.m = 0 THEN x
    ELSE IF x.m >= y.m
    THEN LET ld == LongDiv(x.m - y.m, y.m, F32Bits - 1, 1)
         IN  F32Round(ld.q, x.e - y.e - (F32Bits - 1), 2 * ld.r, y.m)
    ELSE LET ld == LongDiv(x.m, y.m, F32Bits, 0)
         IN  F32Round(ld.q, x.e - y.e - F32Bits, 2 * ld.r, y.m)

RECURSIVE OddPart(_, _)
\* m * 2^e with the trailing zero bits of m moved into e
OddPart(m, e) == IF m % 2 = 0 THEN OddPart(m \div 2, e + 1) ELSE [m |-> m, e |-> e]

RECURSIVE ShiftFor(_, _)
\* the least s with p \div 2^s < 2^24
ShiftFor(p, s) == IF p \div (2 ^ s) < F32Hi THEN s ELSE ShiftFor(p, s + 1)

\* x * y in f32
F32Mul(x, y) ==
    IF x.m = 0 \/ y.m = 0 THEN [m |-> 0, e |-> 0]
    ELSE LET yo == OddPart(y.m, y.e)
             p  == x.m * yo.m
             e  == x.e + yo.e
             s  == ShiftFor(p, 0)
         IN  IF s = 0 THEN F32Normalize(p, e)
             ELSE F32Round(p \div (2 ^ s), e + s, 2 * (p % (2 ^ s)), 2 ^ s)

\* `x as u8`: truncation toward zero, saturating at u8::MAX
F32ToU8(x) ==
    IF x.m = 0 THEN 0
    ELSE IF x.e >= 0 THEN U8Max
    ELSE IF 0 - x.e >= 2 * F32Bits THEN 0
    ELSE LET t == IF 0 - x.e > F32Bits
                  THEN (x.m \div F32Hi) \div (2 ^ (0 - x.e - F32Bits))
                  ELSE x.m \div (2 ^ (0 - x.e))
         IN  IF t > U8Max THEN U8Max ELSE t

----------------------------------------------------------------------------
(* Command values *)

\* the 255. of set_brightness
BrightnessFull == 255
\* the 100. of set_brightness
BrightnessPercent == 100

\* a scaling by 256 instead of 255
BrightnessScaledBy256(brightness) ==
    F32ToU8(F32Mul(F32Div(F32FromInt(brightness), F32FromInt(BrightnessFull + 1)),
                   F32FromInt(BrightnessPercent)))

\* ((brightness as f32 / 255.) * 100.) as u8
BrightnessScaled(brightness) ==
    F32ToU8(F32Mul(F32Div(F32FromInt(brightness), F32FromInt(BrightnessFull)),
                   F32FromInt(BrightnessPercent)))

\* the value of set_brightness: format!("{}", ...)
BrightnessValue(brightness) == Decimal(BrightnessScaled(brightness))

\* the value of set_color: format!("{}:{}:{}", color.0, color.1, color.2)
ColorValue(color) ==
    Decimal(color[1]) \o <<":">> \o Decimal(color[2]) \o <<":">> \o Decimal(color[3])

----------------------------------------------------------------------------
(* The brightness scaling run on every u8 *)

InitBrightness ==
    /\ SessionInit
    /\ stage = "input"
    /\ arg \in Bytes
    /\ ret = <<>>

\* the value field set_brightness builds
ScaleBrightness ==
    /\ stage = "input"
    /\ stage' = "done"
    /\ ret' = BrightnessValue(arg)
    /\ UNCHANGED <<arg, sessionVars>>

NextBrightness == ScaleBrightness

SpecBrightness == InitBrightness /\ [][NextBrightness]_vars

IsDecDigit(c) == \E i \in 1..Len(DecDigits) : DecDigits[i] = c

RECURSIVE DecValue(_, _)
\* the number a string of decimal digits writes
DecValue(s, acc) ==
    IF Len(s) = 0 THEN acc
    ELSE DecValue(Tail(s), acc * Len(DecDigits) + ToDigit(s[1], Len(DecDigits)))

\* a decimal numeral without sign or leading zeros
IsDecimalNumeral(s) ==
    /\ Len(s) >= 1
    /\ \A i \in 1..Len(s) : IsDecDigit(s[i])
    /\ (Len(s) > 1 => s[1] # "0")

\* C6: the brightness value is the decimal string of floor(b * 100 / 255), in
\* 0..100 and non-decreasing in b; 255 gives "100", 128 gives "50", 0 gives "0"
C6_BrightnessScaling ==
    stage = "done" =>
        /\ IsDecimalNumeral(ret)
        /\ DecValue(ret, 0) = (arg * 100) \div 255
        /\ DecValue(ret, 0) \in 0..100
        /\ (arg > 0 => BrightnessScaled(arg - 1) <= DecValue(ret, 0))
        /\ (arg = 255 => ret = <<"1", "0", "0">>)
        /\ (arg = 128 => ret = <<"5", "0">>)
        /\ (arg = 0 => ret = <<"0">>)

C6_Witness == stage = "done" /\ arg = 128 /\ ret = <<"5", "0">>

----------------------------------------------------------------------------
(* Device directory *)

\* the attribute name Device::deserialize looks for
NameAttribute == "name"

\* a search that keeps the last attribute named "name" instead of the first
LastNameIndex(attribute_list) ==
    LET hits == {i \in 1..Len(attribute_list) : attribute_list[i].name = NameAttribute}
    IN  IF hits = {} THEN 0
        ELSE CHOOSE i \in hits : \A j \in hits : j <= i

\* .into_iter().find(|item| item.name == "name"): the index of the first
\* attribute named "name", 0 when there is none
FindNameIndex(attribute_list) ==
    LET hits == {i \in 1..Len(attribute_list) : attribute_list[i].name = NameAttribute}
    IN  IF hits = {} THEN 0
        ELSE CHOOSE i \in hits : \A j \in hits : i <= j

NoDevice == [name |-> "", uuid |-> <<>>]

\* impl Deserialize for Device, from the RawDeviceResponse of one record:
\* the name first (an error when no attribute is named "name"), then the uuid
DeviceDeserialize(raw) ==
    LET k   == FindNameIndex(raw.attribute_list)
        mac == ParseMac(raw.device_uuid)
    IN  IF k = 0 THEN [ok |-> FALSE, device |-> NoDevice]
        ELSE IF ~mac.ok THEN [ok |-> FALSE, device |-> NoDevice]
        ELSE [ok |-> TRUE,
              device |-> [name |-> raw.attribute_list[k].value, uuid |-> mac.mac]]

\* a directory parser that drops the records it cannot read
DevicesResponseLenient(device_list) ==
    LET each == [i \in 1..Len(device_list) |-> DeviceDeserialize(device_list[i])]
    IN  [ok |-> TRUE,
         device_list |-> SelectSeq([i \in 1..Len(each) |-> each[i].device],
                                   LAMBDA d : d # NoDevice)]

\* DevicesResponse { device_list: Vec<Device> }: every record in order, or the
\* first record's error for the whole list
DevicesResponseDeserialize(device_list) ==
    LET each == [i \in 1..Len(device_list) |-> DeviceDeserialize(device_list[i])]
    IN  IF \E i \in 1..Len(each) : ~each[i].ok
        THEN [ok |-> FALSE, device_list |-> <<>>]
        ELSE [ok |-> TRUE, device_list |-> [i \in 1..Len(each) |-> each[i].device]]

----------------------------------------------------------------------------
(* The directory parser run on responses of every shape *)

\* the longest device list tried
MaxRecords == 2

UuidSamples ==
    { <<"A","A",":","B","B",":","C","C",":","D","D",":","E","E",":","F","F">>,
      <<"0","a",":","1","b",":","0","2",":","0","3",":","0","4",":","f","f">>,
      <<"A","A",":","B","B",":","C","C",":","D","D",":","E","E">>,
      <<"A","A",":","B","B",":","C","C",":","D","D",":","E","E",":","G","G">>,
      <<>> }

AttributeSamples ==
    { <<[name |-> "name", value |-> "Lamp"]>>,
      <<[name |-> "brightness", value |-> "50"],
        [name |-> "name", value |-> "Sparkle"],
        [name |-> "name", value |-> "Second"],
        [name |-> "online", value |-> "1"]>>,
      <<[name |-> "brightness", value |-> "50"]>>,
      <<>> }

RawRecords ==
    {[device_uuid |-> u, attribute_list |-> a] : u \in UuidSamples, a \in AttributeSamples}

DirectoryInputs == UNION {[1..n -> RawRecords] : n \in 0..MaxRecords}

InitDirectory ==
    /\ SessionInit
    /\ stage = "input"
    /\ arg \in DirectoryInputs
    /\ ret = <<>>

\* the deserialization of the device-list response body
ParseDirectory ==
    /\ stage = "input"
    /\ stage' = "done"
    /\ ret' = DevicesResponseDeserialize(arg)
    /\ UNCHANGED <<arg, sessionVars>>

NextDirectory == ParseDirectory

SpecDirectory == InitDirectory /\ [][NextDirectory]_vars

HasNameAttribute(raw) ==
    \E i \in 1..Len(raw.attribute_list) : raw.attribute_list[i].name = "name"

\* the identifier codec fails on the record's deviceUuid
MalformedUuid(raw) == ~ParseMac(raw.device_uuid).ok

\* C7: a record without an attribute named "name", or with a deviceUuid the
\* identifier codec fails on, makes the whole list fail: no device is returned
C7_AllOrNothing ==
    (stage = "done" /\ \E i \in 1..Len(arg) :
                            ~HasNameAttribute(arg[i]) \/ MalformedUuid(arg[i]))
        => (~ret.ok /\ ret.device_list = <<>>)

C7_Witness ==
    /\ stage = "done"
    /\ Len(arg) = 2
    /\ HasNameAttribute(arg[1]) /\ ~MalformedUuid(arg[1])
    /\ ~HasNameAttribute(arg[2])
    /\ ~ret.ok

\* C8: a well-formed response of n records gives n devices in response order,
\* the i-th with the bytes of the i-th deviceUuid and the value of the first
\* attribute named "name" of the i-th record
C8_OrderedDevices ==
    (stage = "done" /\ \A i \in 1..Len(arg) :
                            HasNameAttribute(arg[i]) /\ ~MalformedUuid(arg[i]))
        => /\ ret.ok
           /\ Len(ret.device_list) = Len(arg)
           /\ \A i \in 1..Len(arg) :
                LET segs == Split(arg[i].device_uuid, ":")
                    attrs == arg[i].attribute_list
                IN  /\ Len(ret.device_list[i].uuid) = Len(segs)
                    /\ \A j \in 1..Len(segs) :
                          ret.device_list[i].uuid[j] = HexValue(segs[j], 0)
                    /\ \E k \in 1..Len(attrs) :
                          /\ attrs[k].name = "name"
                          /\ \A j \in 1..(k - 1) : attrs[j].name # "name"
                          /\ ret.device_list[i].name = attrs[k].value

C8_Witness ==
    /\ stage = "done"
    /\ ret.ok
    /\ Len(ret.device_list) = 2
    /\ ret.device_list[1].name = "Sparkle"
    /\ ret.device_list[2].name = "Lamp"
    /\ ret.device_list[1].uuid # ret.device_list[2].uuid

----------------------------------------------------------------------------
(* Login protocol *)

\* a JSON value: null, an object (its members in fields), an array (its
\* elements in fields, keys unused), a string, or text that is not JSON
JsonNull == [kind |-> "null", fields |-> <<>>]
JsonObject(fields) == [kind |-> "object", fields |-> fields]
JsonArray(items) == [kind |-> "array", fields |-> items]
JsonMalformed == [kind |-> "malformed", fields |-> <<>>]
JStr(key, chars) == [key |-> key, vkind |-> "string", str |-> chars]
JNum(key) == [key |-> key, vkind |-> "number", str |-> <<>>]

\* #[serde(untagged)] enum LoginResponse { Failure, Success { jsessionId } }:
\* the variants are tried in order.  The unit variant Failure matches only
\* null; Success matches an object with one string member jsessionId, other
\* members ignored; anything else matches no variant, which is an error
LoginResponseDeserialize(body) ==
    LET hits == {i \in 1..Len(body.fields) : body.fields[i].key = "jsessionId"}
    IN  IF body.kind = "null"
        THEN [variant |-> "Failure", session_id |-> NoToken]
        ELSE IF /\ body.kind = "object"
                /\ Cardinality(hits) = 1
                /\ \A i \in hits : body.fields[i].vkind = "string"
        THEN [variant |-> "Success",
              session_id |-> body.fields[CHOOSE i \in hits : TRUE].str]
        ELSE [variant |-> "NoMatch", session_id |-> NoToken]

Ok == [tag |-> "ok", err |-> "", at |-> ""]
Err(kind, at) == [tag |-> "err", err |-> kind, at |-> at]
Panic(at) == [tag |-> "panic", err |-> "", at |-> at]

LoginUri == "https://ucenter.cloud.sengled.com/user/app/customer/v2/AuthenCross.json"
DeviceListUri == "https://life2.cloud.sengled.com/life2/device/list.json"

\* a cookie header that leaves the token out
CookieHeaderWithoutToken(sid) == <<"J","S","E","S","S","I","O","N","I","D","=">>

\* format!("JSESSIONID={}", session_id)
CookieHeader(sid) == <<"J","S","E","S","S","I","O","N","I","D","=">> \o sid

\* format!("{}@lifeApp", session_id)
ClientId(sid) == sid \o <<"@","l","i","f","e","A","p","p">>

----------------------------------------------------------------------------
(* Commands *)

\* #[serde(rename_all = "snake_case")] enum CommandType
CommandTypeTag(ty) ==
    CASE ty = "Switch" -> "switch"
      [] ty = "Brightness" -> "brightness"
      [] ty = "Color" -> "color"

\* format!("wifielement/{}/update", command.dn)
Topic(dn) ==
    <<"w","i","f","i","e","l","e","m","e","n","t","/">> \o MacFmt(dn)
        \o <<"/","u","p","d","a","t","e">>

\* the message send_command hands to client.publish: the topic, and the
\* payload serde_json::to_string(command) with its fields type, dn, value, time
Message(command, millis) ==
    [topic |-> Topic(command.dn),
     ty    |-> CommandTypeTag(command.ty),
     dn    |-> MacFmt(command.dn),
     value |-> command.value,
     time  |-> millis]

----------------------------------------------------------------------------
(* The session: SengledApi::new, get_devices and the four commands, called *)
(* on one client.  Every await is a step, and calls on the one &SengledApi  *)
(* overlap at their awaits; what the network answers, whether              *)
(* the mqtt library succeeds and what the clock reads are chosen freely.    *)
(* The model follows the client of one call of new.                        *)

\* the most command calls started in a run
MaxCalls == 2
\* the most calls suspended at once
MaxPending == 2

Tokens == { <<"a","b","c">>, <<"x","1">> }
Credentials == { [user |-> "alice", pwd |-> "secret"] }

\* login response bodies: null, {}, {"jsessionId":"<token>"}, {"foo":1},
\* {"jsessionId":1}, {"foo":1,"jsessionId":"abc"}, [], and text that is not JSON
LoginBodies ==
    { JsonNull, JsonObject(<<>>), JsonObject(<<JNum("foo")>>),
      JsonObject(<<JNum("jsessionId")>>),
      JsonObject(<<JNum("foo"), JStr("jsessionId", <<"a","b","c">>)>>),
      JsonArray(<<>>), JsonMalformed }
    \cup {JsonObject(<<JStr("jsessionId", t)>>) : t \in Tokens}

\* clock readings in milliseconds since the epoch; a clock before the epoch
\* reads negative
ClockReadings == {0 - 1, 1}

BrightnessSamples == {128}
ColorSamples == { <<255, 0, 0>> }

GoodLamp ==
    [device_uuid |-> <<"A","A",":","B","B",":","C","C",":","D","D",":","E","E",":","F","F">>,
     attribute_list |-> <<[name |-> "name", value |-> "Lamp"]>>]
GoodSparkle ==
    [device_uuid |-> <<"0","a",":","1","b",":","0","2",":","0","3",":","0","4",":","f","f">>,
     attribute_list |-> <<[name |-> "brightness", value |-> "50"],
                          [name |-> "name", value |-> "Sparkle"]>>]
BadRecord ==
    [device_uuid |-> <<"A","A",":","B","B",":","C","C",":","D","D",":","E","E">>,
     attribute_list |-> <<[name |-> "name", value |-> "Broken"]>>]

\* device-list responses of the session: empty, two devices, and a list with
\* a record that does not parse
SessionDirectory ==
    { <<>>, <<GoodLamp, GoodSparkle>>, <<GoodSparkle, BadRecord>> }

\* records from which the caller builds a Device of its own, through the
\* public impl Deserialize for Device, without any get_devices
CallerRecords == { GoodLamp }
BuiltDevices ==
    {DeviceDeserialize(raw).device : raw \in {r \in CallerRecords : DeviceDeserialize(r).ok}}

Init == SessionInit /\ ProbeIdle

\* new, up to the await of recv_json: the login request is posted
NewSendLogin(cred) ==
    /\ pc = "start"
    /\ pc' = "login_wait"
    /\ lastReq' = [uri |-> LoginUri, cookie |-> <<>>,
                   body |-> [user |-> cred.user, pwd |-> cred.pwd, osType |-> "ios",
                             uuid |-> "xxx", productCode |-> "life", appCode |-> "life"]]
    /\ nLogin' = nLogin + 1
    /\ UNCHANGED <<session_id, client, result, devices, lastMsg, nConnect,
                   nPublish, nCalls, lastCall, loginBody, held, pending, probeVars>>

\* new: recv_json fails in the transport; `?` returns Error::Http
NewLoginTransportError ==
    /\ pc = "login_wait"
    /\ pc' = "failed"
    /\ result' = Err("Http", "login")
    /\ UNCHANGED <<session_id, client, devices, lastReq, lastMsg, nLogin, nConnect,
                   nPublish, nCalls, lastCall, loginBody, held, pending, probeVars>>

\* new, from the login response to the await of connect: the body is
\* deserialized (an error is a surf::Error, so Error::Http), the match takes
\* Success or falls to AuthenticationFailure, and on Success the client is
\* created (unwrap: a failure panics) and the connect is started
NewLoginResponse(body, created) ==
    LET r == LoginResponseDeserialize(body)
    IN  /\ pc = "login_wait"
        /\ loginBody' = body
        /\ IF r.variant = "Success" /\ created
           THEN /\ pc' = "connect_wait"
                /\ session_id' = r.session_id
                /\ client' = [client_id |-> ClientId(r.session_id),
                              cookie |-> CookieHeader(r.session_id),
                              connected |-> FALSE]
                /\ nConnect' = nConnect + 1
                /\ UNCHANGED result
           ELSE /\ pc' = IF r.variant = "Success" THEN "panicked" ELSE "failed"
                /\ result' = CASE r.variant = "Success" -> Panic("create_client")
                               [] r.variant = "Failure" -> Err("AuthenticationFailure", "login")
                               [] r.variant = "NoMatch" -> Err("Http", "login")
                /\ UNCHANGED <<session_id, client, nConnect>>
        /\ UNCHANGED <<devices, lastReq, lastMsg, nLogin, nPublish, nCalls,
                       lastCall, held, pending, probeVars>>

\* new, after the await of connect: unwrap, then Ok(SengledApi)
NewConnect(connected) ==
    /\ pc = "connect_wait"
    /\ IF connected
       THEN /\ pc' = "ready"
            /\ client' = [client EXCEPT !.connected = TRUE]
            /\ result' = Ok
       ELSE /\ pc' = "panicked"
            /\ result' = Panic("connect")
            /\ UNCHANGED client
    /\ UNCHANGED <<session_id, devices, lastReq, lastMsg, nLogin, nConnect,
                   nPublish, nCalls, lastCall, loginBody, held, pending, probeVars>>

\* request, up to its await: a POST with the Cookie header of the held token
Request(uri) == [uri |-> uri, cookie |-> CookieHeader(session_id), body |-> "none"]

GetDevicesCall == [NoCall EXCEPT !.op = "get_devices"]

\* the command calls suspended at publish(..).await
PendingCommands == {c \in BagToSet(pending) : c.op # "get_devices"}
NumPendingCommands ==
    BagCardinality(pending)
        - (IF BagIn(GetDevicesCall, pending) THEN CopiesIn(GetDevicesCall, pending) ELSE 0)

\* get_devices, up to the await of recv_json: the request is sent
GetDevicesSend ==
    /\ pc = "ready"
    /\ BagCardinality(pending) < MaxPending
    /\ lastReq' = Request(DeviceListUri)
    /\ pending' = pending (+) SetToBag({GetDevicesCall})
    /\ UNCHANGED <<pc, session_id, client, result, devices, held, lastMsg, nLogin,
                   nConnect, nPublish, nCalls, lastCall, loginBody, probeVars>>

\* DevicesResponse::deserialize of each response of the session, computed once
SessionParsed == [b \in SessionDirectory |-> DevicesResponseDeserialize(b)]

\* recv_json of the device-list response: DevicesResponse::deserialize of the body
RecvDevicesResponse(body) ==
    IF body \in SessionDirectory THEN SessionParsed[body]
    ELSE DevicesResponseDeserialize(body)

\* get_devices, after the await: resp.device_list, or Error::Http for a
\* transport failure or a body that does not deserialize
GetDevicesReturn(transport_ok, body) ==
    LET resp == RecvDevicesResponse(body)
    IN  /\ pc = "ready"
        /\ BagIn(GetDevicesCall, pending)
        /\ pending' = pending (-) SetToBag({GetDevicesCall})
        /\ IF transport_ok /\ resp.ok
           THEN /\ devices' = resp.device_list
                /\ held' = held \cup {resp.device_list[i] : i \in 1..Len(resp.device_list)}
                /\ result' = Ok
           ELSE /\ result' = Err("Http", "get_devices")
                /\ UNCHANGED <<devices, held>>
        /\ UNCHANGED <<pc, session_id, client, lastReq, lastMsg, nLogin, nConnect,
                       nPublish, nCalls, lastCall, loginBody, probeVars>>

\* a send_command that hands nothing to publish
SendCommandDropped(call, command, millis) ==
    /\ pc' = pc
    /\ pending' = pending (+) SetToBag({[call EXCEPT !.msg = Message(command, millis)]})
    /\ UNCHANGED <<lastMsg, nPublish, result>>

\* send_command, up to the await of publish: the payload is serialized and
\* the message is handed to client.publish; the call is then suspended.
\* CurrentTime reads the clock while the payload is serialized: with a clock
\* before the epoch the call panics, having published nothing and written
\* nothing.  The panic unwinds the task that polls the call, and lib.rs does
\* not catch it: a caller that runs everything on that task ends there, and
\* the calls suspended on it are dropped and never resume; a caller that
\* catches the panic, or polls the call on a task of its own, goes on
SendCommand(call, command, millis) ==
    IF millis < 0
    THEN /\ pc' \in {pc, "panicked"}
         /\ result' = Panic("clock")
         /\ UNCHANGED <<lastMsg, nPublish, pending>>
    ELSE /\ pc' = pc
         /\ lastMsg' = Message(command, millis)
         /\ nPublish' = nPublish + 1
         /\ pending' = pending (+) SetToBag({[call EXCEPT !.msg = Message(command, millis)]})
         /\ UNCHANGED result

\* the devices the caller can pass to a command: any &Device, one that a
\* get_devices returned or one it built itself
CallerDevices == held \cup BuiltDevices

\* a command may start: the client exists, and the run is within its bounds
CanStart ==
    /\ pc = "ready"
    /\ nCalls + NumPendingCommands < MaxCalls
    /\ BagCardinality(pending) < MaxPending

CommandFrame ==
    UNCHANGED <<session_id, client, devices, held, lastReq, nLogin, nConnect,
                nCalls, lastCall, loginBody, probeVars>>

\* turn_on, up to the await
TurnOn(device, millis) ==
    /\ CanStart
    /\ SendCommand([NoCall EXCEPT !.op = "turn_on", !.uuid = device.uuid],
                   [dn |-> device.uuid, ty |-> "Switch", value |-> <<"1">>], millis)
    /\ CommandFrame

\* turn_off, up to the await
TurnOff(device, millis) ==
    /\ CanStart
    /\ SendCommand([NoCall EXCEPT !.op = "turn_off", !.uuid = device.uuid],
                   [dn |-> device.uuid, ty |-> "Switch", value |-> <<"0">>], millis)
    /\ CommandFrame

\* set_brightness, up to the await
SetBrightness(device, brightness, millis) ==
    /\ CanStart
    /\ SendCommand([NoCall EXCEPT !.op = "set_brightness", !.uuid = device.uuid,
                                  !.brightness = brightness],
                   [dn |-> device.uuid, ty |-> "Brightness",
                    value |-> BrightnessValue(brightness)], millis)
    /\ CommandFrame

\* set_color, up to the await
SetColor(device, color, millis) ==
    /\ CanStart
    /\ SendCommand([NoCall EXCEPT !.op = "set_color", !.uuid = device.uuid,
                                  !.color = color],
                   [dn |-> device.uuid, ty |-> "Color", value |-> ColorValue(color)],
                   millis)
    /\ CommandFrame

\* send_command and its caller, after the await of publish: Ok(()) when the
\* delivery was confirmed, Error::Mqtt when it failed
CommandReturn(call, delivered) ==
    /\ pc = "ready"
    /\ call \in PendingCommands
    /\ pending' = pending (-) SetToBag({call})
    /\ nCalls' = nCalls + 1
    /\ lastCall' = call
    /\ result' = IF delivered THEN Ok ELSE Err("Mqtt", "publish")
    /\ UNCHANGED <<pc, session_id, client, devices, held, lastReq, lastMsg, nLogin,
                   nConnect, nPublish, loginBody, probeVars>>

Next ==
    \/ \E cred \in Credentials : NewSendLogin(cred)
    \/ NewLoginTransportError
    \/ \E body \in LoginBodies, created \in BOOLEAN : NewLoginResponse(body, created)
    \/ \E connected \in BOOLEAN : NewConnect(connected)
    \/ GetDevicesSend
    \/ \E body \in SessionDirectory : GetDevicesReturn(TRUE, body)
    \/ GetDevicesReturn(FALSE, <<>>)
    \/ \E d \in CallerDevices, t \in ClockReadings : TurnOn(d, t)
    \/ \E d \in CallerDevices, t \in ClockReadings : TurnOff(d, t)
    \/ \E d \in CallerDevices, b \in BrightnessSamples, t \in ClockReadings :
          SetBrightness(d, b, t)
    \/ \E d \in CallerDevices, c \in ColorSamples, t \in ClockReadings : SetColor(d, c, t)
    \/ \E call \in PendingCommands, ok \in BOOLEAN : CommandReturn(call, ok)

Spec == Init /\ [][Next]_vars

----------------------------------------------------------------------------
(* Properties of the session *)

\* the login response is a JSON object with a string member jsessionId
HasSessionIdString(body) ==
    /\ body.kind = "object"
    /\ \E i \in 1..Len(body.fields) :
          body.fields[i].key = "jsessionId" /\ body.fields[i].vkind = "string"

\* the value of that member
TokenOf(body) ==
    body.fields[CHOOSE i \in 1..Len(body.fields) :
                    body.fields[i].key = "jsessionId" /\ body.fields[i].vkind = "string"].str

WellFormedJson(body) == body.kind \in {"null", "object", "array"}

LoginAnswered == loginBody.kind # "none"

\* C1: a login response that is an object with a string jsessionId gives a
\* client holding that token, and every other well-formed JSON body gives
\* Error::AuthenticationFailure, never another error
C1_LoginDiscrimination ==
    (LoginAnswered /\ WellFormedJson(loginBody)) =>
        IF HasSessionIdString(loginBody)
        THEN /\ result.tag # "err"
             /\ (pc \in {"connect_wait", "ready"} => session_id = TokenOf(loginBody))
        ELSE result = Err("AuthenticationFailure", "login")

\* C2: every failure inside new is returned as an error and no client is
\* produced: AuthenticationFailure for a rejected login, a transport error for
\* a failed login call, client creation or connect; none of them panics
C2_FailuresReturned ==
    /\ result.tag = "panic" => result.at \notin {"create_client", "connect"}
    /\ (pc = "failed" /\ LoginAnswered /\ WellFormedJson(loginBody))
          => result = Err("AuthenticationFailure", "login")
    /\ (pc = "failed" /\ ~LoginAnswered) => result = Err("Http", "login")
    /\ pc = "failed" => ~client.connected

\* the message is the one the call is to publish
EncodesCall(call) ==
    LET msg == call.msg
    IN  /\ msg.topic =
              <<"w","i","f","i","e","l","e","m","e","n","t","/">> \o msg.dn
                  \o <<"/","u","p","d","a","t","e">>
        /\ msg.dn = MacFmt(call.uuid)
        /\ ParseMac(msg.dn) = [ok |-> TRUE, mac |-> call.uuid]
        /\ call.op \in {"turn_on", "turn_off", "set_brightness", "set_color"}
        /\ call.op = "turn_on" => (msg.ty = "switch" /\ msg.value = <<"1">>)
        /\ call.op = "turn_off" => (msg.ty = "switch" /\ msg.value = <<"0">>)
        /\ call.op = "set_brightness" =>
              /\ msg.ty = "brightness"
              /\ IsDecimalNumeral(msg.value)
              /\ DecValue(msg.value, 0) = (call.brightness * 100) \div 255
        /\ call.op = "set_color" =>
              /\ msg.ty = "color"
              /\ LET parts == Split(msg.value, ":")
                 IN  /\ Len(parts) = 3
                     /\ \A i \in 1..3 :
                           /\ IsDecimalNumeral(parts[i])
                           /\ DecValue(parts[i], 0) = call.color[i]
              /\ (call.color = <<255, 0, 0>> =>
                     msg.value = <<"2","5","5",":","0",":","0">>)

\* the messages of the calls that reached publish are those of the claim
C9_Encoded ==
    /\ \A call \in PendingCommands : EncodesCall(call)
    /\ lastCall.op # "none" => EncodesCall(lastCall)

\* a step in which the caller starts a command call on a device.  The first
\* two conjuncts follow from each command (its frame, and no get_devices
\* started or returned); they come first because they are quick to test
CommandCall ==
    /\ CommandFrame
    /\ CopiesIn(GetDevicesCall, pending') = CopiesIn(GetDevicesCall, pending)
    /\ \E d \in CallerDevices, t \in ClockReadings :
          \/ TurnOn(d, t)
          \/ TurnOff(d, t)
          \/ \E b \in BrightnessSamples : SetBrightness(d, b, t)
          \/ \E c \in ColorSamples : SetColor(d, c, t)

\* the call hands one message to publish and is suspended
PublishesOne ==
    /\ nPublish' = nPublish + 1
    /\ BagCardinality(pending') = BagCardinality(pending) + 1
    /\ \E call \in BagToSet(pending') : call.msg = lastMsg' /\ EncodesCall(call)

\* the call panics at the clock read and publishes nothing
UnwindsAtClock ==
    /\ result' = Panic("clock")
    /\ UNCHANGED <<nPublish, lastMsg>>
    /\ BagCardinality(pending') = BagCardinality(pending)

C9_Inv ==
    /\ nPublish = nCalls + NumPendingCommands
    /\ C9_Encoded

\* C9 as stated: every command call, whatever the clock reads, publishes
\* exactly one message, encoded as the claim says
C9_EveryCallPublishes == [](C9_Inv) /\ [][CommandCall => PublishesOne]_vars

\* C9: every command call that reads a clock at or after the epoch publishes
\* exactly one message, whether it is still suspended at its await or has
\* returned, to wifielement/<identifier>/update, with dn the same formatted
\* identifier, the type of the operation, and the value "1", "0", the
\* percentage or "R:G:B"; a call that reads a clock before the epoch panics
\* and publishes nothing
C9_CommandEncoding ==
    [](C9_Inv) /\ [][CommandCall => (PublishesOne \/ UnwindsAtClock)]_vars

C9_Witness ==
    /\ result = Panic("clock")
    /\ held = {}
    /\ lastReq.uri = LoginUri
    /\ nCalls = 1
    /\ NumPendingCommands = 1
    /\ lastCall.op = "set_color"
    /\ lastCall.color = <<255, 0, 0>>
    /\ lastCall.msg.value = <<"2","5","5",":","0",":","0">>
    /\ lastCall.msg.ty = "color"
    /\ \E call \in PendingCommands : call.op = "turn_on"

C10_Inv ==
    /\ nLogin <= 1
    /\ nConnect <= 1
    /\ (lastReq.uri = DeviceListUri \/ nPublish > 0) =>
          /\ client.connected
          /\ HasSessionIdString(loginBody)
          /\ nLogin = 1 /\ nConnect = 1
    /\ nConnect = 1 =>
          /\ HasSessionIdString(loginBody)
          /\ session_id = TokenOf(loginBody)
          /\ client.client_id = TokenOf(loginBody) \o <<"@","l","i","f","e","A","p","p">>
          /\ client.cookie =
                <<"J","S","E","S","S","I","O","N","I","D","=">> \o TokenOf(loginBody)
    /\ lastReq.uri = DeviceListUri =>
          lastReq.cookie = <<"J","S","E","S","S","I","O","N","I","D","=">> \o TokenOf(loginBody)

C10_Step ==
    /\ ((lastReq' # lastReq /\ lastReq'.uri = DeviceListUri) \/ nPublish' # nPublish)
          => (pc = "ready" /\ client.connected)
    /\ pc = "ready" =>
          /\ session_id' = session_id
          /\ client' = client
          /\ loginBody' = loginBody
          /\ nLogin' = nLogin
          /\ nConnect' = nConnect

\* C10: a device-list request or a publish happens only once the login has
\* succeeded and the connect has completed; the client id, the connect cookie
\* and every request cookie carry the one token of that login, which is never
\* replaced; there is no second login and no reconnect
C10_SessionOrdering == [](C10_Inv) /\ [][C10_Step]_vars

C10_Witness ==
    /\ pc = "ready"
    /\ nPublish = 2
    /\ held = {}
    /\ lastReq.uri = DeviceListUri
    /\ lastReq.cookie = <<"J","S","E","S","S","I","O","N","I","D","=","x","1">>
    /\ session_id = <<"x","1">>

====
